---- MODULE Spec2Model ----
(***************************************************************************)
(* A model of Modules/_billiard/semaphore.c: the SemLock type, a named OS  *)
(* semaphore used as a recursive mutex or as a counting semaphore.         *)
(*                                                                         *)
(* The Unix build is modelled (semaphore.c lines 189-397 and the code for  *)
(* all platforms, lines 399-574), in its two configurations: with a        *)
(* working sem_getvalue ("posix") and with HAVE_BROKEN_SEM_GETVALUE        *)
(* ("broken_getvalue").  sem_timedwait is always the poll loop             *)
(* Billiard_sem_timedwait_save: the #ifndef around it is commented out.    *)
(*                                                                         *)
(* Threads of one process run the C code under the interpreter lock: a     *)
(* stretch of code between two Py_BEGIN/END_ALLOW_THREADS is one step for  *)
(* the threads of that process, while the threads of other processes see   *)
(* every OS call on the shared kernel semaphore as a step of its own.      *)
(***************************************************************************)
EXTENDS Integers, Naturals, Sequences, FiniteSets, TLC

(* ---------------------------------------------------------------- bounds *)

NThreads == 3          \* threads 1..NThreads-1 live in process 1, the last one in process 2
MaxCount == 2          \* the deepest recursion / local count explored
MaxValue == 2          \* the largest value and maxvalue given to SemLock(...)
MaxClock == 1          \* the clock (microseconds) past which no timed acquire starts
MaxNow == 300000       \* the clock (microseconds) past which no sleep of a poll starts

(* ----------------------------------------------------- program constants *)

RECURSIVE_MUTEX == 0
SEMAPHORE == 1
MP_STANDARD_ERROR == -1
MP_EXCEPTION_HAS_BEEN_SET == -1006
DelayStep == 1000            \* for (delay = 0 ; ; delay += 1000)
MaxDelay == 20000            \* maximum is 20 msecs
UsecPerSec == 1000000
NsecPerSec == 1000000000
NsecPerUsec == 1000

Threads == 1..NThreads
Locks == {1, 2}        \* SemLock objects: the created one, the attached or forked one
Sems == {1, 2}         \* kernel semaphores
Names == {1}           \* semaphore names
ChildThread == NThreads
Proc(t) == IF t = ChildThread THEN 2 ELSE 1

\* timeouts a caller passes, in nanoseconds (a double number of seconds in the code)
Timeouts == {-1000, 0, 1500, 1200000}
Jitter == {0, 500}          \* how much longer than asked a select() sleeps, microseconds

VARIABLES
    build,      \* "posix" | "broken_getvalue": the build configuration
    kval,       \* kval[k]: the value of kernel semaphore k
    kopen,      \* kopen[k]: the number of open handles on k
    names,      \* names[n]: the kernel semaphore linked under name n, or 0
    lock,       \* lock[i]: the BilliardSemLockObject in slot i
    th,         \* th[t]: where thread t is in a call, and the call's locals
    tid,        \* tid[t]: PyThread_get_thread_ident() of thread t (0: not started)
    sig,        \* sig[t]: the signal tripped for t and not yet handled
    now,        \* the clock gettimeofday reads, in microseconds
    ev          \* what the last step returned to its caller, if it returned

vars == <<build, kval, kopen, names, lock, th, tid, sig, now, ev>>

(* ----------------------------------------------------------------- state *)

NoLock ==
    [alive |-> FALSE, proc |-> 0, handle |-> 0, kind |-> RECURSIVE_MUTEX,
     maxvalue |-> 0, count |-> 0, last_tid |-> 0, name |-> 0, needfork |-> FALSE]

NoDeadline == [tv_sec |-> 0, tv_nsec |-> 0]

IdleThread ==
    [pc |-> "idle", self |-> 0, blocking |-> TRUE, timed |-> FALSE, timeout |-> 0,
     deadline |-> NoDeadline, delay |-> 0, res |-> 0, errno |-> "0",
     sval |-> 0]

\* a call by thread t of method op on SemLock object i (0: none) returned ret
Ev(t, op, i, ret) == [t |-> t, op |-> op, self |-> i, ret |-> ret]
NoEv == Ev(0, "none", 0, "none")

\* #define ISMINE(o) (o->count > 0 && PyThread_get_thread_ident() == o->last_tid)
ISMINE_fromzero(o, t) == o.count >= 0 /\ tid[t] = o.last_tid
ISMINE(o, t) == o.count > 0 /\ tid[t] = o.last_tid

\* Billiard_newsemlockobject: a fresh object around a handle
Billiard_newsemlockobject_held(p, handle, kind, maxvalue, name) ==
    [alive |-> TRUE, proc |-> p, handle |-> handle, kind |-> kind,
     maxvalue |-> maxvalue, count |-> maxvalue, last_tid |-> 1, name |-> name,
     needfork |-> FALSE]
Billiard_newsemlockobject(p, handle, kind, maxvalue, name) ==
    [alive |-> TRUE, proc |-> p, handle |-> handle, kind |-> kind,
     maxvalue |-> maxvalue, count |-> 0, last_tid |-> 0, name |-> name,
     needfork |-> FALSE]

\* thread t may call a method of lock i: the object lives in t's process, and a
\* forked copy has had _after_fork called on it
Usable(t, i) ==
    /\ tid[t] # 0
    /\ lock[i].alive
    /\ lock[i].proc = Proc(t)

\* the interpreter lock: no other thread of t's process is in the middle of a
\* stretch of code that holds it
HoldsGil(u) == th[u].pc \in {"rel_post", "rel_undo"}
GilFree(t) == \A u \in Threads \ {t} : Proc(u) = Proc(t) => ~HoldsGil(u)


(* ------------------------------------------------------- the OS semaphore *)

\* sem_trywait / a sem_wait that does not block: take one unit
sem_take(k) == [kval EXCEPT ![k] = @ - 1]

\* sem_post: give one unit back (a POSIX semaphore has no upper bound of its own)
sem_post_lost(k) == kval
sem_post(k) == [kval EXCEPT ![k] = @ + 1]

(* ------------------------------------------------------------ the clock  *)

tv_sec(usecs) == usecs \div UsecPerSec
tv_usec(usecs) == usecs % UsecPerSec

\* lines 290-307: the absolute deadline of a timed acquire, a struct timespec.
\* timeout is the caller's number, in nanoseconds; negative ones count as zero.
Deadline(timeout, clock) ==
    LET tmo == IF timeout < 0 THEN 0 ELSE timeout
        sec == tmo \div NsecPerSec
        nsec == tmo % NsecPerSec
        dsec == tv_sec(clock) + sec
        dnsec == tv_usec(clock) * NsecPerUsec + nsec
    IN  [tv_sec |-> dsec + (dnsec \div NsecPerSec), tv_nsec |-> dnsec % NsecPerSec]

\* A timeout that stands for every number of seconds no long can hold; the
\* timeouts of the model are nanoseconds and stay below it.
TooLarge == 2 * NsecPerSec

\* lines 290-307 for every timeout.  No test is made for one that is too large:
\* sec = (long) timeout (line 302) is then a conversion out of range, whose
\* result is undefined, and so are nsec and the sums that follow.  The
\* deadline may be any timespec; kept here are one long past and one that the
\* clock does not reach.
Deadlines(timeout, clock) ==
    IF timeout = TooLarge
    THEN {[tv_sec |-> -1, tv_nsec |-> 0], [tv_sec |-> 2000, tv_nsec |-> 0]}
    ELSE {Deadline(timeout, clock)}

\* lines 217-218: the deadline as the poll loop keeps it, a struct timeval
TvDeadline(deadline) ==
    [tv_sec |-> deadline.tv_sec, tv_usec |-> deadline.tv_nsec \div NsecPerUsec]

\* lines 232-234: the poll loop's test for the deadline having passed
TimedOut_strict(tvdeadline, clock) ==
    \/ tvdeadline.tv_sec < tv_sec(clock)
    \/ /\ tvdeadline.tv_sec = tv_sec(clock)
       /\ tvdeadline.tv_usec < tv_usec(clock)
TimedOut(tvdeadline, clock) ==
    \/ tvdeadline.tv_sec < tv_sec(clock)
    \/ /\ tvdeadline.tv_sec = tv_sec(clock)
       /\ tvdeadline.tv_usec <= tv_usec(clock)

\* lines 240-241: the microseconds left until the deadline
Difference(tvdeadline, clock) ==
    (tvdeadline.tv_sec - tv_sec(clock)) * UsecPerSec
        + (tvdeadline.tv_usec - tv_usec(clock))

\* lines 244-247: the sleep of this round of the loop
ClampDelay_ceiling(delay, difference) ==
    IF delay > MaxDelay THEN MaxDelay ELSE delay
ClampDelay(delay, difference) ==
    LET d == IF delay > MaxDelay THEN MaxDelay ELSE delay
    IN  IF d > difference THEN difference ELSE d

\* One round of Billiard_sem_timedwait_save up to its sleep (lines 221-247), as
\* the new locals of thread record r waiting on kernel semaphore k.
PollRound(r, k) ==
    IF kval[k] > 0
    THEN [r EXCEPT !.pc = "done_wait", !.res = 0]
    ELSE IF TimedOut(TvDeadline(r.deadline), now)
    THEN [r EXCEPT !.pc = "done_wait", !.res = MP_STANDARD_ERROR,
                   !.errno = "ETIMEDOUT"]
    ELSE [r EXCEPT !.pc = "sleep", !.errno = "EAGAIN",
                   !.delay = ClampDelay(r.delay,
                                        Difference(TvDeadline(r.deadline), now))]

PollTake(k) == IF kval[k] > 0 THEN sem_take(k) ELSE kval

(* ---------------------------------------------------------------- acquire *)

\* PyErr_CheckSignals() in thread t: nonzero when a handler raised
CheckSignals(t) == sig[t] = "cancel"

\* line 285: the test for the recursion fast path
FastPath_anykind(o, t) == ISMINE(o, t)
FastPath(o, t) == o.kind = RECURSIVE_MUTEX /\ ISMINE(o, t)

\* Billiard_semlock_acquire, lines 281-307: the recursion fast path, or the
\* deadline and on to the wait (the interpreter lock is released)
Billiard_semlock_acquire(t, i, blocking, timed, timeout) ==
    /\ th[t].pc = "idle"
    /\ Usable(t, i)
    /\ ~lock[i].needfork
    /\ GilFree(t)
    /\ lock[i].count < MaxCount
    /\ (blocking /\ timed /\ timeout > 0) => now <= MaxClock
    /\ IF FastPath(lock[i], t)
       THEN /\ lock' = [lock EXCEPT ![i].count = @ + 1]
            /\ ev' = Ev(t, "acquire", i, "True")
            /\ UNCHANGED th
       ELSE /\ \E d \in Deadlines(timeout, now) :
                  th' = [th EXCEPT ![t] =
                           [IdleThread EXCEPT !.pc = "call", !.self = i,
                               !.blocking = blocking, !.timed = timed,
                               !.timeout = IF timed THEN timeout ELSE 0,
                               !.deadline = IF timed THEN d ELSE NoDeadline]]
            /\ ev' = NoEv
            /\ UNCHANGED lock
    /\ UNCHANGED <<build, kval, kopen, names, tid, sig, now>>

\* lines 309-317: the OS call of this round of the do-while loop
acquire_call(t) ==
    LET r == th[t]
        k == lock[r.self].handle
    IN  /\ r.pc = "call"
        /\ IF r.blocking /\ ~r.timed
           THEN \* sem_wait
                IF kval[k] > 0
                THEN /\ kval' = sem_take(k)
                     /\ th' = [th EXCEPT ![t].pc = "done_wait", ![t].res = 0]
                ELSE /\ th' = [th EXCEPT ![t].pc = "blocked"]
                     /\ UNCHANGED kval
           ELSE IF ~r.blocking
           THEN \* sem_trywait
                IF kval[k] > 0
                THEN /\ kval' = sem_take(k)
                     /\ th' = [th EXCEPT ![t].pc = "done_wait", ![t].res = 0]
                ELSE /\ th' = [th EXCEPT ![t].pc = "done_wait",
                                         ![t].res = MP_STANDARD_ERROR,
                                         ![t].errno = "EAGAIN"]
                     /\ UNCHANGED kval
           ELSE \* sem_timedwait: Billiard_sem_timedwait_save, its first round
                /\ th' = [th EXCEPT ![t] =
                            PollRound([r EXCEPT !.errno = "0", !.delay = 0], k)]
                /\ kval' = PollTake(k)
        /\ ev' = NoEv
        /\ UNCHANGED <<build, kopen, names, lock, tid, sig, now>>

\* a thread blocked in sem_wait is given a unit
sem_wait_wake(t) ==
    LET k == lock[th[t].self].handle
    IN  /\ th[t].pc = "blocked"
        /\ kval[k] > 0
        /\ kval' = sem_take(k)
        /\ th' = [th EXCEPT ![t].pc = "done_wait", ![t].res = 0]
        /\ ev' = NoEv
        /\ UNCHANGED <<build, kopen, names, lock, tid, sig, now>>

\* lines 249-264 and 220: the sleep ends, the signals are checked, delay grows
timedwait_sleep(t) ==
    /\ th[t].pc = "sleep"
    /\ GilFree(t)
    /\ now <= MaxNow
    /\ \E j \in Jitter : now' = now + th[t].delay + j
    /\ IF CheckSignals(t)
       THEN th' = [th EXCEPT ![t].pc = "done_wait", ![t].errno = "EINTR",
                             ![t].res = MP_EXCEPTION_HAS_BEEN_SET]
       ELSE th' = [th EXCEPT ![t].pc = "poll", ![t].delay = @ + DelayStep]
    /\ sig' = [sig EXCEPT ![t] = "none"]
    /\ ev' = NoEv
    /\ UNCHANGED <<build, kval, kopen, names, lock, tid>>

\* lines 221-247: the next round of the poll loop
Billiard_sem_timedwait_save(t) ==
    LET k == lock[th[t].self].handle
    IN  /\ th[t].pc = "poll"
        /\ th' = [th EXCEPT ![t] = PollRound(th[t], k)]
        /\ kval' = PollTake(k)
        /\ ev' = NoEv
        /\ UNCHANGED <<build, kopen, names, lock, tid, sig, now>>

\* line 320: PyErr_CheckSignals() is called only after an EINTR
SignalsChecked(t) ==
    /\ th[t].res # MP_EXCEPTION_HAS_BEEN_SET
    /\ th[t].res < 0
    /\ th[t].errno = "EINTR"

\* line 320: whether the do-while loop goes round again
Retry(t) == SignalsChecked(t) /\ ~CheckSignals(t)

\* lines 322-334: what acquire returns for the wait's res and errno
AcquireResult_false(res, errno) == "False"
AcquireResult(res, errno) ==
    IF res < 0
    THEN IF errno \in {"EAGAIN", "ETIMEDOUT"} THEN "False"
         ELSE IF errno = "EINTR" THEN "Interrupted"
         ELSE "OSError"
    ELSE "True"

\* lines 331-332: a successful wait is recorded in the object
Acquired_nocount(o, t) == [o EXCEPT !.last_tid = tid[t]]
Acquired(o, t) == [o EXCEPT !.count = @ + 1, !.last_tid = tid[t]]

\* lines 318-334: back under the interpreter lock, retry or return.  A signal
\* that is still pending when the call returns is handled by the interpreter
\* after it.
acquire_finish(t) ==
    LET r == th[t]
        i == r.self
    IN  /\ r.pc = "done_wait"
        /\ GilFree(t)
        /\ sig' = [sig EXCEPT ![t] = "none"]
        /\ IF Retry(t)
           THEN /\ th' = [th EXCEPT ![t].pc = "call"]
                /\ ev' = NoEv
                /\ UNCHANGED lock
           ELSE /\ th' = [th EXCEPT ![t] = IdleThread]
                /\ ev' = Ev(t, "acquire", i, AcquireResult(r.res, r.errno))
                /\ lock' = IF r.res < 0 THEN lock
                           ELSE [lock EXCEPT ![i] = Acquired(lock[i], t)]
        /\ UNCHANGED <<build, kval, kopen, names, tid, now>>

\* a signal reaches thread t (the main thread of its process) during an acquire:
\* a blocked sem_wait or a select in progress fails with EINTR
Signal(t, s) ==
    /\ th[t].pc \in {"call", "blocked", "poll", "sleep", "done_wait"}
    /\ sig[t] = "none" \/ (sig[t] = "benign" /\ s = "cancel")
    /\ sig' = [sig EXCEPT ![t] = s]
    /\ th' = IF th[t].pc \in {"blocked", "sleep"}
             THEN [th EXCEPT ![t].pc = "done_wait", ![t].errno = "EINTR",
                             ![t].res = MP_STANDARD_ERROR]
             ELSE th
    /\ ev' = NoEv
    /\ UNCHANGED <<build, kval, kopen, names, lock, tid, now>>

(* ---------------------------------------------------------------- release *)

\* lines 340-351: a recursive mutex is released by its owner only; an inner
\* release only counts down.  "post": go on to sem_post.
MutexRelease_postinner(o, t) ==
    IF ~ISMINE(o, t) THEN "OwnershipError"
    ELSE IF o.count > 2 THEN "decrement"
    ELSE "post"
MutexRelease_unchecked(o, t) ==
    IF o.count > 1 THEN "decrement" ELSE "post"
MutexRelease(o, t) ==
    IF ~ISMINE(o, t) THEN "OwnershipError"
    ELSE IF o.count > 1 THEN "decrement"
    ELSE "post"

\* lines 376-386: the guard of a build with a working sem_getvalue
GetvalueGuard_none(o, sval) == "post"
GetvalueGuard_above(o, sval) ==
    IF sval > o.maxvalue THEN "OverReleased" ELSE "post"
GetvalueGuard(o, sval) ==
    IF sval >= o.maxvalue THEN "OverReleased" ELSE "post"

\* lines 353-374: the guard of a build with HAVE_BROKEN_SEM_GETVALUE, a
\* sem_trywait probe for maxvalue 1 only.  "undo": the probe took a unit.
ProbeGuard(o, sval) ==
    IF o.maxvalue = 1
    THEN IF sval > 0 THEN "undo" ELSE "post"
    ELSE "post"

\* lines 340-388: what release does before sem_post
ReleaseGuard(o, t, sval) ==
    IF o.kind = RECURSIVE_MUTEX THEN MutexRelease(o, t)
    ELSE IF build = "broken_getvalue" THEN ProbeGuard(o, sval)
    ELSE GetvalueGuard(o, sval)

\* lines 390-394: after sem_post the local count goes down
Released_keep(o) == o
Released(o) == [o EXCEPT !.count = @ - 1]

\* Billiard_semlock_release, lines 340-388, and for a recursive mutex (no OS
\* call before the post) lines 390-394 as well
Billiard_semlock_release(t, i) ==
    LET o == lock[i]
        k == o.handle
        g == ReleaseGuard(o, t, kval[k])
    IN  /\ th[t].pc = "idle"
        /\ Usable(t, i)
        /\ ~o.needfork
        /\ GilFree(t)
        /\ o.count > -MaxCount
        /\ kval[k] <= MaxValue
        /\ CASE g = "OwnershipError" ->
                  /\ ev' = Ev(t, "release", i, "OwnershipError")
                  /\ UNCHANGED <<lock, kval, th>>
             [] g = "OverReleased" ->
                  /\ ev' = Ev(t, "release", i, "OverReleased")
                  /\ UNCHANGED <<lock, kval, th>>
             [] g = "decrement" ->
                  /\ lock' = [lock EXCEPT ![i] = Released(o)]
                  /\ ev' = Ev(t, "release", i, "None")
                  /\ UNCHANGED <<kval, th>>
             [] g = "undo" ->
                  /\ kval' = sem_take(k)
                  /\ th' = [th EXCEPT ![t] =
                              [IdleThread EXCEPT !.pc = "rel_undo", !.self = i]]
                  /\ ev' = NoEv
                  /\ UNCHANGED lock
             [] g = "post" /\ o.kind = RECURSIVE_MUTEX ->
                  /\ kval' = sem_post(k)
                  /\ lock' = [lock EXCEPT ![i] = Released(o)]
                  /\ ev' = Ev(t, "release", i, "None")
                  /\ UNCHANGED th
             [] g = "post" /\ o.kind # RECURSIVE_MUTEX ->
                  /\ th' = [th EXCEPT ![t] =
                              [IdleThread EXCEPT !.pc = "rel_post", !.self = i,
                                                 !.sval = kval[k]]]
                  /\ ev' = NoEv
                  /\ UNCHANGED <<lock, kval>>
        /\ UNCHANGED <<build, kopen, names, tid, sig, now>>

\* lines 390-394: sem_post, then the local count goes down
release_post(t) ==
    LET i == th[t].self
    IN  /\ th[t].pc = "rel_post"
        /\ kval' = sem_post(lock[i].handle)
        /\ lock' = [lock EXCEPT ![i] = Released(lock[i])]
        /\ th' = [th EXCEPT ![t] = IdleThread]
        /\ ev' = Ev(t, "release", i, "None")
        /\ UNCHANGED <<build, kopen, names, tid, sig, now>>

\* lines 363-372: the probe found the semaphore unlocked: put the unit back
\* and raise
release_undo(t) ==
    LET i == th[t].self
    IN  /\ th[t].pc = "rel_undo"
        /\ kval' = sem_post(lock[i].handle)
        /\ th' = [th EXCEPT ![t] = IdleThread]
        /\ ev' = Ev(t, "release", i, "OverReleased")
        /\ UNCHANGED <<build, kopen, names, lock, tid, sig, now>>

(* ---------------------------------------------------------- introspection *)

\* Billiard_semlock_count
Billiard_semlock_count(i) == lock[i].count

\* Billiard_semlock_ismine
Billiard_semlock_ismine(i, t) == ISMINE(lock[i], t)

\* Billiard_semlock_getvalue
Billiard_semlock_getvalue(i) ==
    IF build = "broken_getvalue" THEN -1     \* NotImplementedError is raised
    ELSE LET sval == kval[lock[i].handle]
         IN  IF sval < 0 THEN 0 ELSE sval

\* Billiard_semlock_afterfork
AfterFork_keepcount(o) == [o EXCEPT !.needfork = FALSE]
AfterFork_resetowner(o) == [o EXCEPT !.count = 0, !.last_tid = 0, !.needfork = FALSE]
AfterFork(o) == [o EXCEPT !.count = 0, !.needfork = FALSE]

Billiard_semlock_afterfork(t, i) ==
    /\ th[t].pc = "idle"
    /\ Usable(t, i)
    /\ GilFree(t)
    /\ lock' = [lock EXCEPT ![i] = AfterFork(lock[i])]
    /\ ev' = Ev(t, "afterfork", i, "None")
    /\ UNCHANGED <<build, kval, kopen, names, th, tid, sig, now>>

(* -------------------------------------------------------------- lifecycle *)

FreeSem(k) == kopen[k] = 0 /\ \A n \in Names : names[n] # k
FreeSlot(j) == ~lock[j].alive /\ \A j2 \in Locks : ~lock[j2].alive => j <= j2

\* Billiard_semlock_new.  fail names the step that fails, if one does:
\* "PyMem_Malloc", "sem_open", "sem_unlink", "PyObject_New", or "none".
\* After "failure:" the handle is closed; a name that was not unlinked stays
\* in the namespace, and keeps the kernel semaphore in existence.
Billiard_semlock_new(t, j, kind, value, maxvalue, name, unlink, fail) ==
    /\ th[t].pc = "idle"
    /\ tid[t] # 0
    /\ GilFree(t)
    /\ FreeSlot(j)
    /\ IF kind # RECURSIVE_MUTEX /\ kind # SEMAPHORE
       THEN /\ ev' = Ev(t, "new", 0, "ValueError")
            /\ UNCHANGED <<kval, kopen, names, lock>>
       ELSE IF (~unlink /\ fail = "PyMem_Malloc")
               \/ fail = "sem_open" \/ names[name] # 0
               \/ \A k \in Sems : ~FreeSem(k)
       THEN \* nothing was created: handle == SEM_FAILED
            /\ ev' = Ev(t, "new", 0, "OSError")
            /\ UNCHANGED <<kval, kopen, names, lock>>
       ELSE \E k \in Sems :
            /\ FreeSem(k)
            /\ \A k2 \in Sems : FreeSem(k2) => k <= k2
            /\ IF (unlink /\ fail = "sem_unlink") \/ (~unlink /\ fail = "PyObject_New")
               THEN \* SEM_CLOSE(handle); the name stays
                    /\ kval' = [kval EXCEPT ![k] = value]
                    /\ names' = [names EXCEPT ![name] = k]
                    /\ ev' = Ev(t, "new", 0, "OSError")
                    /\ UNCHANGED <<kopen, lock>>
               ELSE IF fail = "PyObject_New"
               THEN \* the name was unlinked, SEM_CLOSE(handle): nothing is left
                    /\ ev' = Ev(t, "new", 0, "OSError")
                    /\ UNCHANGED <<kval, names, kopen, lock>>
               ELSE /\ kval' = [kval EXCEPT ![k] = value]
                    /\ names' = IF unlink THEN names
                                ELSE [names EXCEPT ![name] = k]
                    /\ kopen' = [kopen EXCEPT ![k] = 1]
                    /\ lock' = [lock EXCEPT ![j] =
                                  Billiard_newsemlockobject(Proc(t), k, kind,
                                      maxvalue, IF unlink THEN 0 ELSE name)]
                    /\ ev' = Ev(t, "new", j, "SemLock")
    /\ UNCHANGED <<build, th, tid, sig, now>>

\* thread t holds handle as a valid handle: an object of its process has it
ValidHandle(t, handle) ==
    \E i \in Locks :
        lock[i].alive /\ lock[i].proc = Proc(t) /\ lock[i].handle = handle

\* Billiard_semlock_rebuild.  With a name (name # 0) the handle passed is
\* replaced by sem_open(name, 0), which creates nothing; with no name (NULL,
\* name = 0) the handle passed, a valid one, is wrapped as it is.
Billiard_semlock_rebuild_create(t, j, handle, kind, maxvalue, name) ==
    /\ th[t].pc = "idle"
    /\ tid[t] # 0
    /\ GilFree(t)
    /\ FreeSlot(j)
    /\ \E k \in Sems :
          /\ FreeSem(k)
          /\ kopen' = [kopen EXCEPT ![k] = @ + 1]
          /\ lock' = [lock EXCEPT ![j] =
                        Billiard_newsemlockobject(Proc(t), k, kind, maxvalue, name)]
    /\ ev' = Ev(t, "rebuild", j, "SemLock")
    /\ UNCHANGED <<build, kval, names, th, tid, sig, now>>
Billiard_semlock_rebuild(t, j, handle, kind, maxvalue, name) ==
    /\ th[t].pc = "idle"
    /\ tid[t] # 0
    /\ GilFree(t)
    /\ FreeSlot(j)
    /\ name = 0 => ValidHandle(t, handle)
    /\ IF name # 0 /\ names[name] = 0
       THEN /\ ev' = Ev(t, "rebuild", 0, "Error")
            /\ UNCHANGED <<kopen, lock>>
       ELSE LET h == IF name # 0 THEN names[name] ELSE handle
            IN  /\ kopen' = IF name # 0 THEN [kopen EXCEPT ![h] = @ + 1]
                            ELSE kopen
                /\ lock' = [lock EXCEPT ![j] =
                              Billiard_newsemlockobject(Proc(t), h, kind,
                                                        maxvalue, name)]
                /\ ev' = Ev(t, "rebuild", j, "SemLock")
    /\ UNCHANGED <<build, kval, names, th, tid, sig, now>>

\* Billiard_semlock_unlink
Billiard_semlock_unlink_destroy(t, name) ==
    /\ th[t].pc = "idle"
    /\ tid[t] # 0
    /\ GilFree(t)
    /\ IF names[name] = 0
       THEN /\ ev' = Ev(t, "unlink", 0, "OSError")
            /\ UNCHANGED <<names, kval>>
       ELSE /\ names' = [names EXCEPT ![name] = 0]
            /\ kval' = [kval EXCEPT ![names[name]] = 0]
            /\ ev' = Ev(t, "unlink", 0, "None")
    /\ UNCHANGED <<build, kopen, lock, th, tid, sig, now>>
Billiard_semlock_unlink(t, name) ==
    /\ th[t].pc = "idle"
    /\ tid[t] # 0
    /\ GilFree(t)
    /\ IF names[name] = 0
       THEN /\ ev' = Ev(t, "unlink", 0, "OSError")
            /\ UNCHANGED names
       ELSE /\ names' = [names EXCEPT ![name] = 0]
            /\ ev' = Ev(t, "unlink", 0, "None")
    \* a kernel semaphore with no name and no open handle is gone
    /\ kval' = IF names[name] # 0 /\ kopen[names[name]] = 0
               THEN [kval EXCEPT ![names[name]] = 0] ELSE kval
    /\ UNCHANGED <<build, kopen, lock, th, tid, sig, now>>

\* fork() called by thread t of process 1: the child process is one thread
\* with t's thread identifier and a copy of SemLock object i in slot j, on
\* which _after_fork has not run yet
Fork(t, i, j) ==
    /\ th[t].pc = "idle"
    /\ Proc(t) = 1
    /\ tid[t] # 0
    /\ GilFree(t)
    /\ tid[ChildThread] = 0
    /\ lock[i].alive /\ lock[i].proc = 1
    /\ FreeSlot(j)
    /\ tid' = [tid EXCEPT ![ChildThread] = tid[t]]
    /\ lock' = [lock EXCEPT ![j] = [lock[i] EXCEPT !.proc = 2, !.needfork = TRUE]]
    /\ kopen' = [kopen EXCEPT ![lock[i].handle] = @ + 1]
    /\ ev' = NoEv
    /\ UNCHANGED <<build, kval, names, th, sig, now>>

(* --------------------------------------------------------- specifications *)

\* the ways to call acquire(block, timeout): <<block, timeout is not None, timeout>>
Untimed == {<<TRUE, FALSE, 0>>, <<FALSE, FALSE, 0>>}
NewFailures == {"none", "PyMem_Malloc", "sem_open", "sem_unlink", "PyObject_New"}

TypeOK ==
    /\ build \in {"posix", "broken_getvalue"}
    /\ kval \in [Sems -> Int]
    /\ kopen \in [Sems -> Nat]
    /\ names \in [Names -> Sems \cup {0}]
    /\ \A i \in Locks : lock[i].alive => lock[i].handle \in Sems
    /\ \A t \in Threads : th[t].self \in Locks \cup {0}
    /\ now \in Nat

\* A recursive mutex, SemLock(RECURSIVE_MUTEX, 1, 1, name, unlink=0), in slot 1
\* of process 1, whose threads acquire and release it.  The second object on
\* the same kernel semaphore is either attached by name in process 1, or the
\* copy a fork leaves in the child, which runs _after_fork on it and uses it.
InitMutex ==
    /\ build = "posix"
    /\ kval = [k \in Sems |-> IF k = 1 THEN 1 ELSE 0]
    /\ kopen = [k \in Sems |-> IF k = 1 THEN 1 ELSE 0]
    /\ names = [n \in Names |-> IF n = 1 THEN 1 ELSE 0]
    /\ lock = [i \in Locks |->
                 IF i = 1
                 THEN Billiard_newsemlockobject(1, 1, RECURSIVE_MUTEX, 1, 1)
                 ELSE NoLock]
    /\ th = [t \in Threads |-> IdleThread]
    /\ tid = [t \in Threads |-> IF t = ChildThread THEN 0 ELSE t]
    /\ sig = [t \in Threads |-> "none"]
    /\ now = 0
    /\ ev = NoEv

NextMutex ==
    \/ \E t \in Threads, j \in Locks :
          Billiard_semlock_rebuild(t, j, lock[1].handle, RECURSIVE_MUTEX, 1, 1)
    \/ \E t \in Threads, i \in Locks, m \in Untimed :
          Billiard_semlock_acquire(t, i, m[1], m[2], m[3])
    \/ \E t \in Threads : acquire_call(t)
    \/ \E t \in Threads : sem_wait_wake(t)
    \/ \E t \in Threads : acquire_finish(t)
    \/ \E t \in Threads, i \in Locks : Billiard_semlock_release(t, i)
    \/ \E t \in Threads, i \in Locks :
          lock[i].needfork /\ Billiard_semlock_afterfork(t, i)
    \/ \E t \in Threads, i \in Locks, j \in Locks : Fork(t, i, j)

SpecMutex == InitMutex /\ [][NextMutex]_vars

\* A SemLock of either kind, SemLock(kind, value, maxvalue, name, unlink=0),
\* in slot 1 of process 1, in either build.  Thread 1 of process 1 and the
\* thread of a second process (its thread identifier is 1 as well) attach a
\* second object to it by name, with the first one's kind and maxvalue, and
\* acquire, release and reset the objects of their process.
Init ==
    /\ build \in {"posix", "broken_getvalue"}
    /\ \E value \in 0..MaxValue :
          kval = [k \in Sems |-> IF k = 1 THEN value ELSE 0]
    /\ kopen = [k \in Sems |-> IF k = 1 THEN 1 ELSE 0]
    /\ names = [n \in Names |-> IF n = 1 THEN 1 ELSE 0]
    /\ \E kind \in {RECURSIVE_MUTEX, SEMAPHORE}, maxvalue \in 1..MaxValue :
          lock = [i \in Locks |->
                    IF i = 1
                    THEN Billiard_newsemlockobject(1, 1, kind, maxvalue, 1)
                    ELSE NoLock]
    /\ th = [t \in Threads |-> IdleThread]
    /\ tid = [t \in Threads |-> IF t \in {1, ChildThread} THEN 1 ELSE 0]
    /\ sig = [t \in Threads |-> "none"]
    /\ now = 0
    /\ ev = NoEv

Next ==
    \/ \E t \in Threads, j \in Locks :
          Billiard_semlock_rebuild(t, j, lock[1].handle, lock[1].kind,
                                   lock[1].maxvalue, lock[1].name)
    \/ \E t \in Threads, i \in Locks, m \in Untimed :
          Billiard_semlock_acquire(t, i, m[1], m[2], m[3])
    \/ \E t \in Threads : acquire_call(t)
    \/ \E t \in Threads : sem_wait_wake(t)
    \/ \E t \in Threads : acquire_finish(t)
    \/ \E t \in Threads, i \in Locks : Billiard_semlock_release(t, i)
    \/ \E t \in Threads : release_post(t)
    \/ \E t \in Threads : release_undo(t)
    \/ \E t \in Threads, i \in Locks : Billiard_semlock_afterfork(t, i)

Spec == Init /\ [][Next]_vars

\* acquire(block, timeout) with and without a timeout
Modes ==
    Untimed \cup {<<TRUE, TRUE, x>> : x \in Timeouts} \cup {<<FALSE, TRUE, 1200000>>}

\* A SemLock of either kind with maxvalue 1, SemLock(kind, value, 1, name,
\* unlink=0), in slot 1 of process 1, and a second object attached to it by
\* name in slot 2 of process 2.  The main thread of process 1 acquires in every
\* mode, while signals arrive and the clock moves on, and releases; the thread
\* of process 2 releases, and acquires without blocking.
InitTimed ==
    /\ build = "posix"
    /\ \E value \in {0, 1} :
          kval = [k \in Sems |-> IF k = 1 THEN value ELSE 0]
    /\ kopen = [k \in Sems |-> IF k = 1 THEN 2 ELSE 0]
    /\ names = [n \in Names |-> IF n = 1 THEN 1 ELSE 0]
    /\ \E kind \in {RECURSIVE_MUTEX, SEMAPHORE} :
          lock = [i \in Locks |-> Billiard_newsemlockobject(i, 1, kind, 1, 1)]
    /\ th = [t \in Threads |-> IdleThread]
    /\ tid = [t \in Threads |-> IF t \in {1, ChildThread} THEN 1 ELSE 0]
    /\ sig = [t \in Threads |-> "none"]
    /\ now = 0
    /\ ev = NoEv

NextTimed ==
    \/ \E t \in Threads, i \in Locks, m \in Modes :
          /\ Proc(t) = 2 => m = <<FALSE, FALSE, 0>>
          /\ Billiard_semlock_acquire(t, i, m[1], m[2], m[3])
    \/ \E t \in Threads : acquire_call(t)
    \/ \E t \in Threads : sem_wait_wake(t)
    \/ \E t \in Threads : timedwait_sleep(t)
    \/ \E t \in Threads : Billiard_sem_timedwait_save(t)
    \/ \E t \in Threads : acquire_finish(t)
    \/ \E t \in {1}, s \in {"benign", "cancel"} : Signal(t, s)
    \/ \E t \in Threads, i \in Locks : Billiard_semlock_release(t, i)
    \/ \E t \in Threads : release_post(t)

SpecTimed == InitTimed /\ [][NextTimed]_vars

\* One SemLock of either kind with maxvalue 1, in either build, and the two
\* threads of process 1, which acquire it with and without blocking and
\* release it; signals whose handlers raise nothing reach the main thread.
InitWait ==
    /\ build \in {"posix", "broken_getvalue"}
    /\ \E value \in {0, 1} :
          kval = [k \in Sems |-> IF k = 1 THEN value ELSE 0]
    /\ kopen = [k \in Sems |-> IF k = 1 THEN 1 ELSE 0]
    /\ names = [n \in Names |-> IF n = 1 THEN 1 ELSE 0]
    /\ \E kind \in {RECURSIVE_MUTEX, SEMAPHORE} :
          lock = [i \in Locks |->
                    IF i = 1 THEN Billiard_newsemlockobject(1, 1, kind, 1, 1)
                    ELSE NoLock]
    /\ th = [t \in Threads |-> IdleThread]
    /\ tid = [t \in Threads |-> IF t \in {1, 2} THEN t ELSE 0]
    /\ sig = [t \in Threads |-> "none"]
    /\ now = 0
    /\ ev = NoEv

NextWait ==
    \/ \E t \in Threads, i \in Locks, m \in Untimed :
          Billiard_semlock_acquire(t, i, m[1], m[2], m[3])
    \/ \E t \in Threads : acquire_call(t)
    \/ \E t \in Threads : sem_wait_wake(t)
    \/ \E t \in Threads : acquire_finish(t)
    \/ \E t \in {1} : Signal(t, "benign")
    \/ \E t \in Threads, i \in Locks : Billiard_semlock_release(t, i)
    \/ \E t \in Threads : release_post(t)
    \/ \E t \in Threads : release_undo(t)

\* A thread that is inside a call goes on: the OS call is made, a thread
\* blocked in sem_wait is woken when the value stays positive, and a thread
\* that waits for the interpreter lock gets it.  Nothing obliges a thread to
\* call acquire or release, and nothing obliges a signal to arrive.
FairWait ==
    \A t \in Threads :
        /\ WF_vars(acquire_call(t))
        /\ WF_vars(sem_wait_wake(t))
        /\ WF_vars(acquire_finish(t))
        /\ WF_vars(release_post(t))
        /\ WF_vars(release_undo(t))

SpecWait == InitWait /\ [][NextWait]_vars /\ FairWait

\* One SemLock of either kind with maxvalue 1 in process 1.  Thread 1 acquires
\* it with a timeout of a quarter of a second, or with one that is too large,
\* and goes round the poll loop while the clock moves on; thread 2 acquires
\* without blocking and releases.
PollModes == {<<TRUE, TRUE, 250000000>>, <<TRUE, TRUE, TooLarge>>}

InitPoll ==
    /\ build = "posix"
    /\ \E value \in {0, 1} :
          kval = [k \in Sems |-> IF k = 1 THEN value ELSE 0]
    /\ kopen = [k \in Sems |-> IF k = 1 THEN 1 ELSE 0]
    /\ names = [n \in Names |-> IF n = 1 THEN 1 ELSE 0]
    /\ \E kind \in {RECURSIVE_MUTEX, SEMAPHORE} :
          lock = [i \in Locks |->
                    IF i = 1 THEN Billiard_newsemlockobject(1, 1, kind, 1, 1)
                    ELSE NoLock]
    /\ th = [t \in Threads |-> IdleThread]
    /\ tid = [t \in Threads |-> IF t \in {1, 2} THEN t ELSE 0]
    /\ sig = [t \in Threads |-> "none"]
    /\ now = 0
    /\ ev = NoEv

NextPoll ==
    \/ \E t \in Threads, i \in Locks, m \in PollModes \cup {<<FALSE, FALSE, 0>>} :
          /\ t = 1 <=> m \in PollModes
          /\ Billiard_semlock_acquire(t, i, m[1], m[2], m[3])
    \/ \E t \in Threads : acquire_call(t)
    \/ \E t \in Threads : timedwait_sleep(t)
    \/ \E t \in Threads : Billiard_sem_timedwait_save(t)
    \/ \E t \in Threads : acquire_finish(t)
    \/ \E t \in Threads, i \in Locks : Billiard_semlock_release(t, i)
    \/ \E t \in Threads : release_post(t)

SpecPoll == InitPoll /\ [][NextPoll]_vars

\* The life of the objects: nothing exists at first.  Thread 1 of process 1
\* creates SemLock(kind, value, 1, name, unlink), with a step of the creation
\* failing or none; it and the thread of a second process attach by name or
\* wrap a handle of their process, unlink the name, and acquire without
\* blocking and release.
InitLife ==
    /\ build = "posix"
    /\ kval = [k \in Sems |-> 0]
    /\ kopen = [k \in Sems |-> 0]
    /\ names = [n \in Names |-> 0]
    /\ lock = [i \in Locks |-> NoLock]
    /\ th = [t \in Threads |-> IdleThread]
    /\ tid = [t \in Threads |-> IF t \in {1, ChildThread} THEN 1 ELSE 0]
    /\ sig = [t \in Threads |-> "none"]
    /\ now = 0
    /\ ev = NoEv

NextLife ==
    \/ \E t \in {1}, j \in Locks, kind \in {RECURSIVE_MUTEX, SEMAPHORE, 2},
          value \in {0, 1}, name \in Names, unlink \in BOOLEAN,
          fail \in NewFailures :
          Billiard_semlock_new(t, j, kind, value, 1, name, unlink, fail)
    \/ \E t \in Threads, j \in Locks, handle \in Sems,
          kind \in {RECURSIVE_MUTEX, SEMAPHORE}, name \in Names \cup {0} :
          Billiard_semlock_rebuild(t, j, handle, kind, 1, name)
    \/ \E t \in Threads, name \in Names : Billiard_semlock_unlink(t, name)
    \/ \E t \in Threads, i \in Locks :
          Billiard_semlock_acquire(t, i, FALSE, FALSE, 0)
    \/ \E t \in Threads : acquire_call(t)
    \/ \E t \in Threads : acquire_finish(t)
    \/ \E t \in Threads, i \in Locks : Billiard_semlock_release(t, i)
    \/ \E t \in Threads : release_post(t)

SpecLife == InitLife /\ [][NextLife]_vars

(* ------------------------------------------------ properties of SpecMutex *)

\* object i is in use: it exists and, if a fork produced it, _after_fork has run
InUse(i) == lock[i].alive /\ ~lock[i].needfork

\* thread t of the process of object i sees ismine() true on it
Owns(t, i) ==
    /\ tid[t] # 0
    /\ InUse(i)
    /\ lock[i].proc = Proc(t)
    /\ Billiard_semlock_ismine(i, t)

\* C1: mutual exclusion.  On a recursive mutex created with value 1 there are
\* never two distinct threads that each see ismine() true, on the same object
\* or on two objects of the same kernel semaphore (attached by name, or the
\* copy of a fork once _after_fork has run on it).
C1_MutualExclusion ==
    \A t \in Threads, u \in Threads, i \in Locks, j \in Locks :
        (t # u /\ Owns(t, i)) => ~Owns(u, j)

\* C1 witness: the child of a fork owns its copy of the mutex, which the
\* forking thread of the parent owned before and has released since
C1_Witness ==
    /\ Owns(ChildThread, 2)
    /\ lock[1].last_tid = tid[ChildThread]
    /\ lock[1].count = 0

\* the step is the return of release() called by t on object i with result ret
ReleaseReturns(t, i, ret) ==
    /\ th[t].pc = "idle"
    /\ ev' = Ev(t, "release", i, ret)

\* C2: recursion.  While a thread holds the mutex, N deep, the kernel
\* semaphore is at 0 and the acquire of no other thread returns True; a release
\* at depth above 1 takes the depth down by one and does not post; the release
\* at depth 1 posts the semaphore and leaves count = 0.
C2_Recursion ==
    [][\A t \in Threads, i \in Locks :
          Owns(t, i) =>
             /\ kval[lock[i].handle] = 0
             /\ \A u \in Threads \ {t}, j \in Locks :
                   ev' # Ev(u, "acquire", j, "True")
             /\ ReleaseReturns(t, i, "None") =>
                   IF lock[i].count > 1
                   THEN /\ kval' = kval
                        /\ lock'[i].count = lock[i].count - 1
                        /\ Owns(t, i)'
                   ELSE /\ kval' = sem_post(lock[i].handle)
                        /\ lock'[i].count = 0
      ]_vars

\* C2 witness: an inner release has just returned (the depth was 2), the
\* kernel semaphore is still taken and another thread is blocked on it
C2_Witness ==
    \E t \in Threads, u \in Threads :
        /\ ev = Ev(t, "release", 1, "None")
        /\ Owns(t, 1)
        /\ lock[1].count = 1
        /\ th[u].pc = "blocked"

\* C4: release() of a recursive mutex by a thread that does not own it (count
\* is 0, or last_tid is another thread) raises the ownership error and leaves
\* the object and the kernel semaphore as they were; the ownership error is
\* raised in no other case.
C4_OwnershipError ==
    [][\A t \in Threads, i \in Locks :
          /\ (\E ret \in {"None", "OverReleased", "OwnershipError"} :
                  ReleaseReturns(t, i, ret)) /\ ~Owns(t, i)
                => /\ ReleaseReturns(t, i, "OwnershipError")
                   /\ lock' = lock
                   /\ kval' = kval
          /\ ReleaseReturns(t, i, "OwnershipError") => ~Owns(t, i)
      ]_vars

\* C4 witness: the ownership error was raised for a thread while another
\* thread of its process holds the mutex
C4_Witness ==
    \E t \in Threads, u \in Threads :
        /\ ev = Ev(t, "release", 1, "OwnershipError")
        /\ u # t
        /\ Owns(u, 1)

(* ----------------------------------------------------- properties of Spec *)

\* the step is thread t entering release() on object i
ReleaseCalled(t, i) ==
    /\ th[t].pc = "idle"
    /\ \/ \E ret \in {"None", "OverReleased", "OwnershipError"} :
             ev' = Ev(t, "release", i, ret)
       \/ th'[t].pc \in {"rel_post", "rel_undo"} /\ th'[t].self = i

\* C3, as the claim states it: the count of an object of either kind is never
\* negative
C3_Original ==
    \A i \in Locks : lock[i].alive => Billiard_semlock_count(i) >= 0

\* C3, amended: the count of a recursive mutex is never negative (that of a
\* semaphore goes below 0 when the object releases more than it acquired)
C3_MutexCountNotNegative ==
    \A i \in Locks :
        (lock[i].alive /\ lock[i].kind = RECURSIVE_MUTEX)
            => Billiard_semlock_count(i) >= 0

\* C3 witness: a recursive mutex that a thread held is back at count 0, and
\* a release by that thread has just been refused
C3_Witness ==
    \E t \in Threads, i \in Locks :
        /\ lock[i].alive
        /\ lock[i].kind = RECURSIVE_MUTEX
        /\ lock[i].last_tid = tid[t]
        /\ Billiard_semlock_count(i) = 0
        /\ ev = Ev(t, "release", i, "OwnershipError")

\* C5, as the claim states it: release() of a semaphore whose kernel value
\* equals maxvalue raises OverReleased, posts nothing and leaves count alone
C5_Original ==
    [][\A t \in Threads, i \in Locks :
          (/\ ReleaseCalled(t, i)
           /\ lock[i].kind = SEMAPHORE
           /\ kval[lock[i].handle] = lock[i].maxvalue)
              => /\ ReleaseReturns(t, i, "OverReleased")
                 /\ lock' = lock
                 /\ kval' = kval
      ]_vars

\* C5, amended: with a working sem_getvalue, release() of a semaphore whose
\* kernel value equals maxvalue raises OverReleased, posts nothing and leaves
\* count alone.  With HAVE_BROKEN_SEM_GETVALUE the over-release is detected for
\* maxvalue 1 only, by a sem_trywait that takes the unit and a sem_post that
\* puts it back before OverReleased is raised, count unchanged; for a larger
\* maxvalue the release goes on to post.
C5_OverReleased ==
    [][\A t \in Threads, i \in Locks :
          /\ (/\ ReleaseCalled(t, i)
              /\ lock[i].kind = SEMAPHORE
              /\ kval[lock[i].handle] = lock[i].maxvalue)
                 => IF build = "posix"
                    THEN /\ ReleaseReturns(t, i, "OverReleased")
                         /\ lock' = lock
                         /\ kval' = kval
                    ELSE IF lock[i].maxvalue = 1
                    THEN /\ th'[t].pc = "rel_undo"
                         /\ lock' = lock
                         /\ kval' = sem_take(lock[i].handle)
                    ELSE /\ th'[t].pc = "rel_post"
                         /\ lock' = lock
                         /\ kval' = kval
          /\ (th[t].pc = "rel_undo" /\ th[t].self = i /\ th'[t].pc # "rel_undo")
                 => /\ ev' = Ev(t, "release", i, "OverReleased")
                    /\ lock' = lock
                    /\ kval' = sem_post(lock[i].handle)
      ]_vars

\* C5 witness: a semaphore with maxvalue 1 and value 1 was acquired once and
\* released, and a second release has just raised OverReleased
C5_Witness ==
    \E t \in Threads, i \in Locks :
        /\ ev = Ev(t, "release", i, "OverReleased")
        /\ lock[i].kind = SEMAPHORE
        /\ lock[i].maxvalue = 1
        /\ lock[i].last_tid = tid[t]
        /\ lock[i].count = 0
        /\ kval[lock[i].handle] = 1

\* C7: _after_fork sets count to 0 whatever the object held, and changes
\* nothing else: the owner, handle, kind, maxvalue and name of the object, the
\* other objects, the kernel semaphores, their handles and names all stay.
C7_AfterForkFrame ==
    [][\A t \in Threads, i \in Locks :
          (th[t].pc = "idle" /\ ev' = Ev(t, "afterfork", i, "None"))
             => /\ Billiard_semlock_count(i)' = 0
                /\ lock' = [lock EXCEPT ![i].count = 0, ![i].needfork = FALSE]
                /\ UNCHANGED <<kval, kopen, names, th>>
      ]_vars

\* C7 witness: _after_fork has just run on a recursive mutex that its caller
\* held: the kernel semaphore is still taken and the owner is still recorded
C7_Witness ==
    \E t \in Threads, i \in Locks :
        /\ ev = Ev(t, "afterfork", i, "None")
        /\ lock[i].kind = RECURSIVE_MUTEX
        /\ lock[i].last_tid = tid[t]
        /\ Billiard_semlock_count(i) = 0
        /\ kval[lock[i].handle] = 0
        /\ \A u \in Threads : th[u].pc = "idle"
        /\ \A j \in Locks : lock[j].alive => lock[j].count = 0

\* what object i shows of the kernel counter: get_value() where it is supported
Observed(i) ==
    IF build = "posix" THEN Billiard_semlock_getvalue(i)
    ELSE kval[lock[i].handle]

\* C10: the object in slot 2, attached by the name of the object in slot 1,
\* works on the same kernel counter.  When an acquire on the second object
\* takes its unit, get_value() of the first is one lower; when a release on
\* the second posts, it is one higher again; the first object's count and its
\* other fields stay as they were in both steps and when the acquire returns.
C10_RoundTrip ==
    [][\A t \in Threads :
          (lock[1].alive /\ lock[2].alive) =>
             /\ (/\ th[t].self = 2
                 /\ th[t].pc \in {"call", "blocked"}
                 /\ th'[t].pc = "done_wait"
                 /\ th'[t].res = 0)
                   => /\ Observed(1)' = Observed(1) - 1
                      /\ lock' = lock
             /\ (th[t].pc = "done_wait" /\ ev' = Ev(t, "acquire", 2, "True"))
                   => /\ Observed(1)' = Observed(1)
                      /\ lock'[1] = lock[1]
                      /\ Billiard_semlock_count(2)' = Billiard_semlock_count(2) + 1
             /\ (\/ th[t].pc = "rel_post" /\ ev' = Ev(t, "release", 2, "None")
                 \/ /\ ReleaseReturns(t, 2, "None")
                    /\ Billiard_semlock_count(2) = 1
                    /\ lock[2].kind = RECURSIVE_MUTEX)
                   => /\ Observed(1)' = Observed(1) + 1
                      /\ lock'[1] = lock[1]
                      /\ Billiard_semlock_count(2)' = Billiard_semlock_count(2) - 1
      ]_vars

\* C10 witness: the acquire on the attached object has been released again;
\* the first object, never acquired, shows the value 1 and count 0
C10_Witness ==
    \E t \in Threads :
        /\ build = "posix"
        /\ ev = Ev(t, "release", 2, "None")
        /\ lock[2].alive
        /\ lock[2].last_tid = tid[t]
        /\ Billiard_semlock_count(2) = 0
        /\ lock[1].last_tid = 0
        /\ Billiard_semlock_count(1) = 0
        /\ Billiard_semlock_getvalue(1) = 1

(* ------------------------------------------------ properties of SpecTimed *)

\* the acquire that thread record r is in does not wait: block is false, or the
\* timeout is zero or negative
ZeroWait(r) == ~r.blocking \/ (r.timed /\ r.timeout <= 0)

\* C6: acquire(block=False), and acquire with a timeout that is zero or
\* negative, when the caller does not hold the mutex, makes one sem_trywait and
\* returns: it never blocks, sleeps or goes round again.  With the kernel
\* semaphore at 0 it returns False and leaves the objects and the kernel value
\* as they were; with a unit available it takes the unit and returns True.
C6_NonBlocking ==
    [][\A t \in Threads :
          (th[t].pc # "idle" /\ th[t].pc \notin {"rel_post", "rel_undo"}
             /\ ZeroWait(th[t])) =>
             LET i == th[t].self
                 k == lock[i].handle
             IN  /\ th[t].pc \in {"call", "done_wait"}
                 /\ (th[t].pc = "call" /\ th'[t].pc # "call") =>
                       /\ th'[t].pc = "done_wait"
                       /\ lock' = lock
                       /\ IF kval[k] > 0
                          THEN th'[t].res = 0 /\ kval' = sem_take(k)
                          ELSE th'[t].res < 0 /\ kval' = kval
                 /\ (th[t].pc = "done_wait" /\ th'[t] # th[t]) =>
                       /\ th'[t].pc = "idle"
                       /\ kval' = kval
                       /\ IF th[t].res < 0
                          THEN ev' = Ev(t, "acquire", i, "False") /\ lock' = lock
                          ELSE ev' = Ev(t, "acquire", i, "True")
      ]_vars

\* C6 witness: an acquire with a negative timeout found the kernel semaphore
\* at 0 and is about to return False, the clock where it was at the call
C6_Witness ==
    \E t \in Threads :
        /\ th[t].pc = "done_wait"
        /\ th[t].blocking /\ th[t].timed /\ th[t].timeout < 0
        /\ th[t].res = MP_STANDARD_ERROR
        /\ th[t].errno = "ETIMEDOUT"
        /\ kval[lock[th[t].self].handle] = 0
        /\ now = 0

\* the clock, in microseconds, has reached the deadline, a struct timespec
Reached(deadline, clock) ==
    \/ deadline.tv_sec < tv_sec(clock)
    \/ /\ deadline.tv_sec = tv_sec(clock)
       /\ deadline.tv_nsec <= tv_usec(clock) * NsecPerUsec

\* C8, as the claim states it: an acquire with a timeout T > 0 does not time
\* out (return False) at a clock value before the deadline, the clock at the
\* call plus T
C8_Original ==
    \A t \in Threads :
        (/\ th[t].pc = "done_wait"
         /\ th[t].blocking /\ th[t].timed /\ th[t].timeout > 0
         /\ th[t].res = MP_STANDARD_ERROR
         /\ th[t].errno = "ETIMEDOUT")
            => Reached(th[t].deadline, now)

\* C9, as the claim states it: a blocking acquire, with no timeout or with a
\* timeout above zero, that is blocked in sem_wait or going round the poll
\* loop when a cancellation has arrived for it, does not end the wait with a
\* unit or a timeout: the wait fails with EINTR and the kernel value as it
\* was, and the acquire returns Interrupted, leaving the objects and the
\* kernel value as they were
C9_Original ==
    [][\A t \in Threads, i \in Locks :
          (th[t].self = i /\ ~ZeroWait(th[t]) /\ sig[t] = "cancel") =>
             /\ (th[t].pc \in {"blocked", "poll", "sleep"}
                    /\ th'[t].pc = "done_wait")
                   => /\ th'[t].res < 0
                      /\ th'[t].errno = "EINTR"
                      /\ kval' = kval
             /\ (th[t].pc = "done_wait" /\ th[t].errno = "EINTR"
                    /\ th'[t].pc = "idle")
                   => /\ ev' = Ev(t, "acquire", i, "Interrupted")
                      /\ lock' = lock
                      /\ kval' = kval
      ]_vars

(* --------------------------------------- further properties of Spec *)

\* the step is the return of method op called on object i, with result ret
Returns(op, i, ret) == \E t \in Threads : ev' = Ev(t, op, i, ret)

\* C11: count is the net number of acquisitions.  The count of a new object
\* is 0; a step changes the count of an object exactly when it is the return
\* of acquire() with True on it (one up), the return of release() with None
\* on it (one down) or the return of _after_fork on it (back to 0): an acquire
\* that returns False or an error, and a release that raises, leave it alone.
C11_NetCount ==
    [][\A i \in Locks :
          IF ~lock[i].alive
          THEN lock'[i].alive => Billiard_semlock_count(i)' = 0
          ELSE Billiard_semlock_count(i)' =
                  IF Returns("acquire", i, "True")
                  THEN Billiard_semlock_count(i) + 1
                  ELSE IF Returns("release", i, "None")
                  THEN Billiard_semlock_count(i) - 1
                  ELSE IF Returns("afterfork", i, "None")
                  THEN 0
                  ELSE Billiard_semlock_count(i)
      ]_vars

\* C11 witness: a semaphore object that released once with no acquire before
\* it has now acquired, its count back at 0, while the other object on the
\* same kernel semaphore has acquired twice
C11_Witness ==
    \E t \in Threads, i \in Locks :
        /\ ev = Ev(t, "acquire", i, "True")
        /\ lock[i].kind = SEMAPHORE
        /\ Billiard_semlock_count(i) = 0
        /\ \E j \in Locks : j # i /\ lock[j].alive /\ Billiard_semlock_count(j) = 2

(* ------------------------------------------------- properties of SpecLife *)

\* C12: a create that returns an error leaves nothing behind.  A step in
\* which SemLock(...) raises makes no kernel semaphore exist that did not
\* exist before it: none gains an open handle and none gains a name.
C12_Original ==
    [][(\E t \in Threads : ev' = Ev(t, "new", 0, "OSError"))
          => \A k \in Sems : FreeSem(k) => FreeSem(k)'
      ]_vars

\* C13: removing the name keeps the open handles valid.  sem_unlink returning
\* None changes no object, no handle count and no value of a semaphore that
\* has a handle open; no step changes the handle of an object; an attach
\* that gives an object with a name found that name in the namespace, and
\* an attach that fails changes no kernel semaphore and no object.
C13_UnlinkKeepsHandles ==
    [][/\ (\E t \in Threads : ev' = Ev(t, "unlink", 0, "None"))
            => /\ lock' = lock
               /\ kopen' = kopen
               /\ \A k \in Sems : kopen[k] > 0 => kval'[k] = kval[k]
       /\ \A i \in Locks :
            lock[i].alive => lock'[i].alive /\ lock'[i].handle = lock[i].handle
       /\ \A t \in Threads, j \in Locks :
            (ev' = Ev(t, "rebuild", j, "SemLock") /\ lock'[j].name # 0)
               => /\ names[lock'[j].name] # 0
                  /\ lock'[j].handle = names[lock'[j].name]
                  /\ kval' = kval
       /\ (\E t \in Threads : ev' = Ev(t, "rebuild", 0, "Error"))
            => kval' = kval /\ kopen' = kopen /\ names' = names /\ lock' = lock
      ]_vars

\* the second process acquired through an object it attached by a name that
\* is no longer in the namespace, the first process holding its own object
C13_Witness ==
    \E i \in Locks, j \in Locks :
        /\ ev = Ev(ChildThread, "acquire", i, "True")
        /\ lock[i].name # 0
        /\ names[lock[i].name] = 0
        /\ lock[j].alive /\ lock[j].proc = 1 /\ lock[j].handle = lock[i].handle

\* C14: attach yields a fresh local instance.  The object that
\* Billiard_semlock_rebuild returns, opened by name or wrapped around a
\* handle, has count 0 and no owner, so _is_mine() is false in every thread,
\* and the call changes the value of no kernel semaphore.
C14_AttachFresh ==
    [][\A t \in Threads, j \in Locks :
          ev' = Ev(t, "rebuild", j, "SemLock")
             => /\ Billiard_semlock_count(j)' = 0
                /\ lock'[j].last_tid = 0
                /\ \A u \in Threads : ~Billiard_semlock_ismine(j, u)'
                /\ kval' = kval
      ]_vars

\* a handle was wrapped while another object of the process holds the only
\* unit of the semaphore
C14_Witness ==
    \E t \in Threads, i \in Locks, j \in Locks :
        /\ ev = Ev(t, "rebuild", j, "SemLock")
        /\ lock[j].name = 0
        /\ i # j
        /\ lock[i].alive /\ lock[i].handle = lock[j].handle
        /\ Billiard_semlock_count(i) = 1
        /\ kval[lock[j].handle] = 0

(* ------------------------------------------------- properties of SpecPoll *)

\* C15: a timeout too large for the wait duration is refused.  An acquire
\* called with block true and such a timeout, once past the recursion test,
\* takes no unit of the kernel semaphore, changes no object, and returns
\* neither True nor False nor any error but OverflowError.
C15_Original ==
    [][\A t \in Threads, i \in Locks :
          (/\ th[t].pc # "idle" /\ th[t].timed /\ th[t].timeout = TooLarge
           /\ th'[t] # th[t])
             => /\ kval' = kval
                /\ lock' = lock
                /\ \A ret \in {"True", "False", "Interrupted", "OSError"} :
                      ev' # Ev(t, "acquire", i, ret)
      ]_vars

\* the microseconds from the clock to the deadline of thread t's timed wait
Remaining(t) ==
    (th[t].deadline.tv_sec * UsecPerSec
        + th[t].deadline.tv_nsec \div NsecPerUsec) - now

Least(a, b) == IF a < b THEN a ELSE b

\* C19 as stated: the sleeps of the poll loop grow exponentially.  The delay
\* that the loop carries into its next round is at least twice the sleep that
\* has just ended; a sleep is never longer than 20 ms nor than the time left,
\* and is issued only when the deadline is still ahead.
C19_Original ==
    [][\A t \in Threads :
          /\ (th[t].pc = "sleep" /\ th'[t].pc = "poll")
                => th'[t].delay >= 2 * th[t].delay
          /\ (th[t].pc # "sleep" /\ th'[t].pc = "sleep")
                => /\ Remaining(t) > 0
                   /\ th'[t].delay <= MaxDelay
                   /\ th'[t].delay <= Remaining(t)
      ]_vars

\* C19: the back-off of the poll loop is linear.  The first round asks for a
\* sleep of 0, each later round for the sleep that has just ended plus 1 ms;
\* the sleep issued is what was asked for, cut to 20 ms and to the time left
\* until the deadline, and is issued only when the deadline is still ahead.
C19_Backoff ==
    [][\A t \in Threads :
          /\ (th[t].pc = "sleep" /\ th'[t].pc = "poll")
                => th'[t].delay = th[t].delay + DelayStep
          /\ (th[t].pc = "call" /\ th'[t].pc = "sleep")
                => th'[t].delay = 0
          /\ (th[t].pc = "poll" /\ th'[t].pc = "sleep")
                => th'[t].delay =
                      Least(Least(th[t].delay, MaxDelay), Remaining(t))
          /\ (th[t].pc # "sleep" /\ th'[t].pc = "sleep")
                => /\ Remaining(t) > 0
                   /\ th'[t].delay <= MaxDelay
                   /\ th'[t].delay <= Remaining(t)
      ]_vars

\* late in a wait of a quarter of a second, after sleeps of 20 ms, a sleep is
\* cut to the time left
C19_Witness ==
    \E t \in Threads :
        /\ th[t].pc = "sleep"
        /\ th[t].timeout = 250000000
        /\ now > 230000
        /\ th[t].delay > 0
        /\ th[t].delay < MaxDelay
        /\ th[t].delay = Remaining(t)

(* ----------------------------------------- further properties of SpecTimed *)

\* this step is thread t calling acquire on lock i
AcquireCalled(t, i) ==
    /\ th[t].pc = "idle"
    /\ \/ ev' = Ev(t, "acquire", i, "True")
       \/ th'[t].pc = "call" /\ th'[t].self = i

Holding == {i \in Locks : InUse(i) /\ lock[i].count > 0}
Taking == {t \in Threads : th[t].pc = "done_wait" /\ th[t].res = 0}

\* C17: ownership is backed by an OS-level acquisition.  On a recursive mutex
\* created with value 1 the value of the kernel semaphore never exceeds 1 and
\* is 0 whenever a thread sees ismine() true; the one unit is at every moment
\* either in the kernel semaphore, or with the one object whose count is
\* positive, or with the one thread between its OS wait and its count.
C17_OwnershipBacked ==
    /\ kval[1] \in {0, 1}
    /\ kval[1] + Cardinality(Holding) + Cardinality(Taking) = 1
    /\ \A t \in Threads, i \in Locks : Owns(t, i) => kval[lock[i].handle] = 0
    /\ \A i \in Holding : \E t \in Threads : Owns(t, i)

\* a thread of process 1 has just taken the mutex through the second object,
\* attached by name, after the first object had held it
C17_Witness ==
    \E t \in Threads :
        /\ ev = Ev(t, "acquire", 2, "True")
        /\ Owns(t, 2)
        /\ lock[2].proc = 1
        /\ lock[2].count = 1
        /\ lock[1].last_tid # 0
        /\ kval[1] = 0

\* C18: the overflow guard of release is advisory.  For a semaphore in the
\* build that reads the value with sem_getvalue, the value of the kernel
\* semaphore goes up only in the post of a release that read a value below
\* maxvalue and returns None, and by one; when the value has not changed
\* between that read and the post, the post leaves it at maxvalue or below.
\* So a value that starts at maxvalue or below stays there as long as no
\* release is overtaken between its read and its post (the witness: two are).
C18_GuardAdvisory ==
    [][(build = "posix" /\ lock[1].kind = SEMAPHORE) =>
          \A k \in Sems :
             kval'[k] > kval[k] =>
                \E t \in Threads :
                   /\ th[t].pc = "rel_post"
                   /\ lock[th[t].self].handle = k
                   /\ ev' = Ev(t, "release", th[t].self, "None")
                   /\ kval'[k] = kval[k] + 1
                   /\ th[t].sval < lock[th[t].self].maxvalue
                   /\ kval[k] = th[t].sval
                         => kval'[k] <= lock[th[t].self].maxvalue
      ]_vars

\* the value was at most maxvalue at first, each of two processes read
\* maxvalue - 1 or less, and the second post has taken it above maxvalue
C18_Witness ==
    \E t \in Threads, i \in Locks :
        /\ build = "posix"
        /\ ev = Ev(t, "release", i, "None")
        /\ lock[i].kind = SEMAPHORE
        /\ lock[i].maxvalue = MaxValue
        /\ kval[lock[i].handle] = MaxValue + 1

\* the units that are neither in the kernel semaphore nor in a count: taken
\* by an OS wait and not yet counted, or taken by the probe of a release
InFlight ==
    {t \in Threads : \/ th[t].pc = "done_wait" /\ th[t].res = 0
                     \/ th[t].pc = "rel_undo"}

RECURSIVE SumCounts(_)
SumCounts(S) ==
    IF S = {} THEN 0
    ELSE LET i == CHOOSE x \in S : TRUE
         IN  (IF lock[i].alive THEN lock[i].count ELSE 0) + SumCounts(S \ {i})

Units == kval[1] + SumCounts(Locks) + Cardinality(InFlight)

\* C20: unit conservation for a counting semaphore.  The value of the kernel
\* semaphore plus the counts of all the objects attached to it, plus the
\* units held by operations that are in the middle of their OS call, is
\* changed by no step of acquire, release or attach; with no operation in the
\* middle it is the value the semaphore was created with.
C20_UnitConservation ==
    [][(/\ lock[1].kind = SEMAPHORE
        /\ \A t \in Threads, i \in Locks : ev' # Ev(t, "afterfork", i, "None"))
          => Units' = Units
      ]_vars

\* two objects in two processes, each with releases and acquires behind it:
\* one count is negative, the other positive, and nothing is in the middle
C20_Witness ==
    /\ lock[1].kind = SEMAPHORE
    /\ lock[2].alive
    /\ lock[1].count = -1
    /\ lock[2].count = 2
    /\ kval[1] = 1
    /\ \A t \in Threads : th[t].pc = "idle"
    /\ \E t \in Threads : ev = Ev(t, "acquire", 2, "True")

(* ------------------------------------------------- properties of SpecWait *)

\* thread t is inside acquire(block=True, timeout=None) on lock i
Waiting(t, i) ==
    /\ th[t].pc \in {"call", "blocked", "done_wait"}
    /\ th[t].self = i
    /\ th[t].blocking
    /\ ~th[t].timed

\* a thread other than t has taken a unit of kernel semaphore k: in an
\* acquire, or in the probe of a release
OtherTook(t, k) ==
    \E u \in Threads \ {t} :
        /\ th[u].pc \in {"done_wait", "rel_undo"}
        /\ th[u].pc = "done_wait" => th[u].res = 0
        /\ lock[th[u].self].handle = k

\* acquire has just returned True to thread t, the last to take lock i
Got(t, i) ==
    /\ ev = Ev(t, "acquire", i, "True")
    /\ lock[i].last_tid = tid[t]

\* C21: a blocking acquire makes progress.  An acquire with block true and no
\* timeout, no handler of a signal raising, never returns False; and under
\* weak fairness, from every moment at which a thread is inside such an
\* acquire and the value of the kernel semaphore is positive, either another
\* thread takes a unit or the acquire returns True; a return of such an
\* acquire raises the count by one and records the caller as the owner.
C21_Progress ==
    /\ [][\A t \in Threads, i \in Locks :
             (Waiting(t, i) /\ th'[t].pc = "idle")
                => /\ ev' = Ev(t, "acquire", i, "True")
                   /\ lock'[i].count = lock[i].count + 1
                   /\ lock'[i].last_tid = tid[t]
         ]_vars
    /\ \A t \in Threads, i \in Locks :
          (Waiting(t, i) /\ kval[lock[i].handle] > 0)
             ~> (Got(t, i) \/ OtherTook(t, lock[i].handle))

\* thread 1 is blocked in sem_wait and thread 2, the holder, has just released
C21_Witness ==
    /\ Waiting(1, 1)
    /\ th[1].pc = "blocked"
    /\ ev = Ev(2, "release", 1, "None")
    /\ lock[1].count = 0
    /\ kval[1] > 0

====
